---- MODULE Spec2Model ----
(***************************************************************************)
(* Model of streamlit_app.py: the location pipeline (IP detection behind   *)
(* a 30-minute cache, manual override through geocoding, hardcoded         *)
(* fallback), the weather-code -> icon table, and the chat turn that       *)
(* appends to the session transcript.                                      *)
(*                                                                         *)
(* One script run (Streamlit reruns the whole script on every widget       *)
(* interaction) is one action.  Network answers are inputs of the run.     *)
(***************************************************************************)
EXTENDS Integers, Sequences, FiniteSets, TLC

VARIABLES
    session_keys,    \* keys present in st.session_state ("geo", "messages")
    geo,             \* st.session_state.geo
    messages,        \* st.session_state.messages
    openai_api_key,  \* text held by the credential input
    cache,           \* the st.cache_data entry of detect_location_by_ip
    out,             \* what the last script run did (requests, icon, notices)
    probe            \* argument/result of a direct function call (unit specs)

vars == <<session_keys, geo, messages, openai_api_key, cache, out, probe>>

----------------------------------------------------------------------------
(* Python / JSON values.  Every scalar is a record of one shape so that    *)
(* any two values can be compared.  A dict is a record without field "t".  *)

JNull == [t |-> "null", n |-> 0, s |-> ""]
Missing == [t |-> "missing", n |-> 0, s |-> ""]
Num(k) == [t |-> "num", n |-> k, s |-> ""]
Str(x) == [t |-> "str", n |-> 0, s |-> x]
Bool(b) == [t |-> "bool", n |-> (IF b THEN 1 ELSE 0), s |-> ""]

\* x is a dict (a place record, a weather snapshot)
IsDict(v) == "t" \notin DOMAIN v

\* d.get(key): a key that is not there reads as None
Get(v) == IF IsDict(v) THEN v ELSE IF v.t = "missing" THEN JNull ELSE v

\* `x is None`
IsNone(v) == (~IsDict(v)) /\ v.t = "null"

\* Python truth value: None, 0 and "" are false, a non-empty dict is true
Truthy(v) ==
    IF IsDict(v) THEN TRUE
    ELSE CASE v.t = "num" -> v.n # 0
           [] v.t = "bool" -> v.n # 0
           [] v.t = "str" -> v.s # ""
           [] OTHER -> FALSE

\* a or b
PyOr(a, b) == IF Truthy(a) THEN a ELSE b

\* Coordinates are held in units of 1e-4 degree.  float(x) of a number is
\* the number, of a numeric text its value, and raises otherwise.
NumericText == [s \in {"2.3522"} |-> 23522]

CanFloat(v) ==
    (~IsDict(v)) /\ (v.t = "num" \/ (v.t = "str" /\ v.s \in DOMAIN NumericText))

ToFloat(v) == IF v.t = "num" THEN v ELSE Num(NumericText[v.s])

----------------------------------------------------------------------------
(* weather_icon: the glyphs are named, not drawn.                          *)
(*   globe = U+1F310, sun = U+2600, moon = U+1F319, partly_sunny = U+1F324, *)
(*   cloud = U+2601, fog = U+1F32B, rain = U+1F327, snow = U+2744,          *)
(*   thunderstorm = U+26C8, sun_behind_rain_cloud = U+1F326,                *)
(*   speech_balloon = U+1F4AC (the title's icon when no weather is known).  *)

NumSet(S) == {Num(c) : c \in S}

\* a plausible slip: the freezing drizzle/rain codes filed under snow
weather_icon_freezing_as_snow(code, is_day) ==
    IF IsNone(code) THEN "globe"
    ELSE LET day == (is_day = Num(1)) IN
    IF code = Num(0) THEN (IF day THEN "sun" ELSE "moon")
    ELSE IF code \in NumSet({1, 2}) THEN (IF day THEN "partly_sunny" ELSE "moon")
    ELSE IF code = Num(3) THEN "cloud"
    ELSE IF code \in NumSet({45, 48}) THEN "fog"
    ELSE IF code \in NumSet({51, 53, 55, 61, 63, 65, 80, 81, 82}) THEN "rain"
    ELSE IF code \in NumSet({56, 57, 66, 67, 71, 73, 75, 77, 85, 86}) THEN "snow"
    ELSE IF code \in NumSet({95, 96, 99}) THEN "thunderstorm"
    ELSE "sun_behind_rain_cloud"

weather_icon(code, is_day) ==
    IF IsNone(code) THEN "globe"
    ELSE LET day == (is_day = Num(1)) IN
    IF code = Num(0) THEN (IF day THEN "sun" ELSE "moon")
    ELSE IF code \in NumSet({1, 2}) THEN (IF day THEN "partly_sunny" ELSE "moon")
    ELSE IF code = Num(3) THEN "cloud"
    ELSE IF code \in NumSet({45, 48}) THEN "fog"
    ELSE IF code \in NumSet({51, 53, 55, 61, 63, 65, 80, 81, 82}) THEN "rain"
    ELSE IF code \in NumSet({56, 57, 66, 67}) THEN "rain"
    ELSE IF code \in NumSet({71, 73, 75, 77, 85, 86}) THEN "snow"
    ELSE IF code \in NumSet({95, 96, 99}) THEN "thunderstorm"
    ELSE "sun_behind_rain_cloud"

----------------------------------------------------------------------------
(* geocode_city.  The answer of the geocoding service is an input:         *)
(*   status  "error" (requests.get, raise_for_status or r.json() raised)   *)
(*           or "ok";                                                      *)
(*   has_results  whether data["results"] is a non-empty list;             *)
(*   res     its first element.                                            *)
(* The request is issued before anything is looked at (line 13).           *)

geocode_city(name, resp) ==
    LET value ==
            IF resp.status # "ok" THEN JNull
            ELSE IF ~resp.has_results THEN JNull
            ELSE IF resp.res.latitude.t = "missing" \/ resp.res.longitude.t = "missing"
                 THEN JNull                        \* KeyError, swallowed
            ELSE [name |-> Get(resp.res.name),
                  country |-> Get(resp.res.country),
                  lat |-> resp.res.latitude,
                  lon |-> resp.res.longitude]
    IN [value |-> value, calls |-> {"geocoding"}]

----------------------------------------------------------------------------
(* fetch_current_weather                                                   *)

fetch_current_weather(lat, lon, resp) ==
    IF resp.status # "ok" THEN JNull
    ELSE [weather_code |-> Get(resp.current.weather_code),
          is_day |-> Get(resp.current.is_day),
          temperature_2m |-> Get(resp.current.temperature_2m)]

----------------------------------------------------------------------------
(* detect_location_by_ip, the body (lines 82-126).  Each provider's answer *)
(* is an input: status "error" (the call or r.json() raised), "notok"      *)
(* (r.ok false) or "ok" with the JSON object in json.                      *)

PlaceFrom(city, country, lat, lon, ip, org) ==
    [name |-> city, country |-> country, lat |-> ToFloat(lat), lon |-> ToFloat(lon),
     ip |-> ip, org |-> org]

\* what the first try block returns, JNull when it falls through
ProviderA(a) ==
    IF a.status # "ok" THEN JNull
    ELSE LET city == Get(a.json.city)
             country == Get(a.json.country_name)
             lat == Get(a.json.latitude)
             lon == Get(a.json.longitude)
             ip == Get(a.json.ip)
             org == PyOr(Get(a.json.org), Get(a.json.asn))
         IN IF Truthy(city) /\ Truthy(country) /\ ~IsNone(lat) /\ ~IsNone(lon)
            THEN IF CanFloat(lat) /\ CanFloat(lon)
                 THEN PlaceFrom(city, country, lat, lon, ip, org)
                 ELSE JNull                        \* float() raised, swallowed
            ELSE JNull

\* what the second try block returns, JNull when it falls through
ProviderB(b) ==
    IF b.status # "ok" THEN JNull
    ELSE IF ~Truthy(Get(b.json.success)) THEN JNull
    ELSE LET city == Get(b.json.city)
             country == Get(b.json.country)
             lat == Get(b.json.latitude)
             lon == Get(b.json.longitude)
             ip == Get(b.json.ip)
             conn == b.json.connection
         IN IF IsNone(conn) THEN JNull             \* None.get raised, swallowed
            ELSE LET org == IF IsDict(conn) THEN Get(conn.isp) ELSE JNull
                 IN IF Truthy(city) /\ Truthy(country) /\ ~IsNone(lat) /\ ~IsNone(lon)
                    THEN IF CanFloat(lat) /\ CanFloat(lon)
                         THEN PlaceFrom(city, country, lat, lon, ip, org)
                         ELSE JNull
                    ELSE JNull

\* a plausible slip: the backup provider is asked whatever the first one said
detect_body_always_b(a, b) ==
    IF IsDict(ProviderA(a))
    THEN [value |-> ProviderA(a), calls |-> {"ipapi", "ipwho"}]
    ELSE [value |-> ProviderB(b), calls |-> {"ipapi", "ipwho"}]

detect_body(a, b) ==
    IF IsDict(ProviderA(a))
    THEN [value |-> ProviderA(a), calls |-> {"ipapi"}]
    ELSE [value |-> ProviderB(b), calls |-> {"ipapi", "ipwho"}]

----------------------------------------------------------------------------
(* Text.  A place name typed by the user and a chat text are sequences of  *)
(* characters, so that strip() and the joining of streamed fragments are   *)
(* computed, not assumed.                                                   *)

MaxNameLen == 2
MaxFrags == 2
MaxMsgs == 4

RECURSIVE LStrip(_)
LStrip(s) == IF s # <<>> /\ Head(s) = " " THEN LStrip(Tail(s)) ELSE s

RECURSIVE RStrip(_)
RStrip(s) ==
    IF s # <<>> /\ s[Len(s)] = " " THEN RStrip(SubSeq(s, 1, Len(s) - 1)) ELSE s

\* str.strip()
Strip(s) == RStrip(LStrip(s))

\* st.write_stream(stream): the fragments joined in arrival order
RECURSIVE Join(_)
Join(frags) == IF frags = <<>> THEN <<>> ELSE Head(frags) \o Join(Tail(frags))

SeqsUpTo(S, n) == UNION {[1..k -> S] : k \in 0..n}

Names == SeqsUpTo({" ", "T"}, MaxNameLen)
Prompts == {<<"p">>, <<"q">>}
Fragments == {<<"x">>, <<"y", "z">>}
\* a completion stream: the fragments it yields, and whether it is exhausted
\* (ok) or raises after them
Streams == [frags : SeqsUpTo(Fragments, MaxFrags), ok : BOOLEAN]
NoStream == [frags |-> <<>>, ok |-> TRUE]

----------------------------------------------------------------------------
(* Answers of the network services.                                        *)

ErrResp == [status |-> "error"]

JsonA == [city : {JNull, Str(""), Str("Paris")},
          country_name : {Missing, Str("France")},
          latitude : {Missing, Num(0), Num(488566), Str("abc")},
          longitude : {JNull, Num(23522), Str("2.3522")},
          ip : {Missing, Str("203.0.113.7")},
          org : {Missing, Str("ExampleNet")},
          asn : {Missing, Str("AS64500")}]
RespA == {ErrResp, [status |-> "notok"]} \cup [status : {"ok"}, json : JsonA]

JsonB == [success : {Bool(FALSE), Bool(TRUE)},
          city : {Str(""), Str("Osaka")},
          country : {JNull, Str("Japan")},
          latitude : {Missing, Num(346937)},
          longitude : {JNull, Num(1355023)},
          ip : {Str("198.51.100.9")},
          connection : {Missing, JNull, [isp |-> Str("ExampleISP")]}]
RespB == {ErrResp, [status |-> "notok"]} \cup [status : {"ok"}, json : JsonB]

GeoRes == [name : {Missing, Str("Tokyo")},
           country : {Missing, Str("Japan")},
           latitude : {Missing, JNull, Num(356762)},
           longitude : {Missing, JNull, Num(1396503)}]
GeoResp == {ErrResp, [status |-> "ok", has_results |-> FALSE]}
           \cup [status : {"ok"}, has_results : {TRUE}, res : GeoRes]

WeatherResp == {ErrResp}
               \cup [status : {"ok"},
                     current : [weather_code : {Missing, Num(0), Num(61)},
                                is_day : {Num(0), Num(1)},
                                temperature_2m : {Num(12)}]]

\* The inputs a session is given.  Two sets of them: LocEnv varies the
\* location services and keeps the chat short, ChatEnv varies the chat and
\* keeps the location services steady.  Both drive the same script.
SessRespA ==
    {a \in RespA : a.status = "ok" =>
        /\ a.json.city = Str("Paris") /\ a.json.country_name = Str("France")
        /\ a.json.latitude \in {Missing, Num(488566)}
        /\ a.json.longitude = Num(23522)
        /\ a.json.ip # Missing /\ a.json.org # Missing /\ a.json.asn = Missing}
SessRespB ==
    {b \in RespB : b.status = "ok" =>
        /\ b.json.success = Bool(TRUE) /\ b.json.country = Str("Japan")
        /\ b.json.city = Str("Osaka")
        /\ b.json.latitude = Num(346937) /\ b.json.longitude = Num(1355023)
        /\ b.json.connection # JNull}
SessGeoResp ==
    {g \in GeoResp : (g.status = "ok" /\ g.has_results) =>
        /\ g.res.country = Str("Japan") /\ g.res.longitude = Num(1396503)
        /\ g.res.name = Str("Tokyo")}
ClearDay == [weather_code |-> Num(0), is_day |-> Num(1), temperature_2m |-> Num(12)]
SessWeatherResp == {w \in WeatherResp : w.status = "ok" => w.current = ClearDay}

LocMaxMsgs == 2

LocEnv ==
    [A |-> SessRespA, B |-> SessRespB, G |-> SessGeoResp, W |-> SessWeatherResp,
     names |-> {n \in Names : Len(n) < MaxNameLen},
     prompts |-> {<<"p">>},
     streams |-> {s \in Streams : Len(s.frags) = 1 /\ s.frags[1] = <<"x">>},
     max_msgs |-> LocMaxMsgs]

ChatEnv ==
    [A |-> {a \in SessRespA : a.status = "ok" /\ a.json.latitude # Missing},
     B |-> {ErrResp},
     G |-> {g \in SessGeoResp : g.status = "ok" /\ g.has_results
                                /\ g.res.latitude \notin {Missing, JNull}},
     W |-> {ErrResp},
     names |-> {<<"T">>},
     prompts |-> Prompts,
     streams |-> Streams,
     max_msgs |-> MaxMsgs]

----------------------------------------------------------------------------
(* @st.cache_data(ttl=60 * 30) around detect_location_by_ip.  The entry is *)
(* process-wide and keyed by the (empty) argument list; it holds the       *)
(* returned value, None included, and its age in seconds.  A caller is     *)
(* handed a copy of the stored value, so later updates of a session's      *)
(* record do not reach the entry.                                          *)

Ttl == 60 * 30
TickSeconds == 900

NoEntry == [has |-> FALSE, value |-> JNull, age |-> 0]

CacheFresh(c) == c.has /\ c.age < Ttl

\* a miss: the body's result is stored with age 0 and returned
Stored(d) ==
    [value |-> d.value, calls |-> d.calls,
     cache |-> [has |-> TRUE, value |-> d.value, age |-> 0]]

\* a plausible slip: a None result is not kept and is looked up again
detect_location_by_ip_none_not_cached(c, a, b) ==
    IF CacheFresh(c) /\ ~IsNone(c.value)
    THEN [value |-> c.value, calls |-> {}, cache |-> c]
    ELSE Stored(detect_body(a, b))

detect_location_by_ip(c, a, b) ==
    IF CacheFresh(c)
    THEN [value |-> c.value, calls |-> {}, cache |-> c]
    ELSE Stored(detect_body(a, b))

----------------------------------------------------------------------------
(* The steps of the script, in the order it runs them.                     *)

\* lines 160-167; 37.5665 and 126.9780 in units of 1e-4 degree
SeoulLat == 375665
SeoulLon == 1269780
\* (the source names the place in Korean: Seoul, Republic of Korea)
Fallback ==
    [name |-> Str("Seoul"), country |-> Str("South Korea"),
     lat |-> Num(SeoulLat), lon |-> Num(SeoulLon), ip |-> JNull, org |-> JNull]

\* lines 148-168: a record is kept, anything else is replaced by the default
Located(need, d) ==
    [geo |-> (IF Truthy(d.value) THEN d.value ELSE Fallback),
     calls |-> d.calls, cache |-> d.cache,
     called |-> need, detected |-> (IF need THEN d.value ELSE JNull),
     fallback |-> ~Truthy(d.value)]

\* lines 143-168: detect on first run or on refresh, else keep; default to Seoul
LocationStep(keys, g, c, refresh_loc, a, b) ==
    IF ("geo" \notin keys) \/ refresh_loc
    THEN Located(TRUE, detect_location_by_ip(c, a, b))
    ELSE Located(FALSE, [value |-> g, calls |-> {}, cache |-> c])

\* lines 178-185, given what geocode_city returned
Applied(g, r) ==
    IF Truthy(r.value)
    THEN [geo |-> [g EXCEPT !.name = r.value.name, !.country = r.value.country,
                            !.lat = r.value.lat, !.lon = r.value.lon],
          calls |-> r.calls, notice |-> "success", found |-> r.value]
    ELSE [geo |-> g, calls |-> r.calls, notice |-> "warning", found |-> JNull]

NotApplied(g) == [geo |-> g, calls |-> {}, notice |-> "none", found |-> JNull]

\* a plausible slip: the record is replaced by the geocoding result
AppliedReplace(g, r) ==
    IF Truthy(r.value)
    THEN [geo |-> [name |-> r.value.name, country |-> r.value.country,
                   lat |-> r.value.lat, lon |-> r.value.lon,
                   ip |-> JNull, org |-> JNull],
          calls |-> r.calls, notice |-> "success", found |-> r.value]
    ELSE [geo |-> g, calls |-> r.calls, notice |-> "warning", found |-> JNull]

\* a plausible slip: a failed lookup resets the record to the default
AppliedResetOnMiss(g, r) ==
    IF Truthy(r.value)
    THEN [geo |-> [g EXCEPT !.name = r.value.name, !.country = r.value.country,
                            !.lat = r.value.lat, !.lon = r.value.lon],
          calls |-> r.calls, notice |-> "success", found |-> r.value]
    ELSE [geo |-> Fallback, calls |-> r.calls, notice |-> "warning", found |-> JNull]

\* a plausible slip: the typed text is tested before it is stripped
ManualStepUnstripped(g, apply_manual, manual_loc, resp) ==
    IF apply_manual /\ manual_loc # <<>>
    THEN Applied(g, geocode_city(Strip(manual_loc), resp))
    ELSE NotApplied(g)

ManualStepReplace(g, apply_manual, manual_loc, resp) ==
    IF apply_manual /\ Strip(manual_loc) # <<>>
    THEN AppliedReplace(g, geocode_city(Strip(manual_loc), resp))
    ELSE NotApplied(g)

ManualStepResetOnMiss(g, apply_manual, manual_loc, resp) ==
    IF apply_manual /\ Strip(manual_loc) # <<>>
    THEN AppliedResetOnMiss(g, geocode_city(Strip(manual_loc), resp))
    ELSE NotApplied(g)

\* lines 176-185: the "apply location" button
ManualStep(g, apply_manual, manual_loc, resp) ==
    IF apply_manual /\ Strip(manual_loc) # <<>>
    THEN Applied(g, geocode_city(Strip(manual_loc), resp))
    ELSE NotApplied(g)

\* lines 200-201
IconOf(wx) ==
    IF Truthy(wx) THEN weather_icon(wx.weather_code, wx.is_day) ELSE "speech_balloon"

\* lines 196-201: the title's icon
IconStep(g, resp) ==
    IF Truthy(g)
    THEN [icon |-> IconOf(fetch_current_weather(g.lat, g.lon, resp)),
          calls |-> {"weather"}]
    ELSE [icon |-> "speech_balloon", calls |-> {}]

UserMsg(text) == [role |-> "user", content |-> text]
AssistantMsg(text) == [role |-> "assistant", content |-> text]

\* line 212: st.stop()
Stopped(keys, msgs) ==
    [stopped |-> TRUE, keys |-> keys, shown |-> <<>>, chat_input |-> FALSE,
     messages |-> msgs, calls |-> {}, turn |-> "none"]

\* lines 224-248, given the transcript the run found and the reply to store
Turn(keys, had, prompt, ok, reply) ==
    [stopped |-> FALSE, keys |-> keys \cup {"messages"}, shown |-> had,
     chat_input |-> TRUE,
     messages |-> (IF prompt = <<>> THEN had
                   ELSE IF ok THEN had \o <<UserMsg(prompt), AssistantMsg(reply)>>
                   ELSE Append(had, UserMsg(prompt))),
     calls |-> (IF prompt = <<>> THEN {} ELSE {"chat"}),
     turn |-> (IF prompt = <<>> THEN "none" ELSE IF ok THEN "done" ELSE "failed")]

\* lines 220-221
Transcript(keys, msgs) == IF "messages" \in keys THEN msgs ELSE <<>>

\* (for the slip below) the last fragment alone
LastFragment(frags) == IF frags = <<>> THEN <<>> ELSE frags[Len(frags)]

\* a plausible slip: the credential is not checked before the chat part
ChatStepNoStop(keys, msgs, key, prompt, stream) ==
    Turn(keys, Transcript(keys, msgs), prompt, stream.ok, Join(stream.frags))

\* a plausible slip: only the last fragment is kept as the reply
ChatStepLastFragment(keys, msgs, key, prompt, stream) ==
    IF key = <<>> THEN Stopped(keys, msgs)
    ELSE Turn(keys, Transcript(keys, msgs), prompt, stream.ok, LastFragment(stream.frags))

\* lines 211-248: st.stop() without a credential; else the transcript is
\* created if need be, echoed, and a submitted text makes one turn.  A stream
\* that raises ends the run after the user message was stored (line 231).
ChatStep(keys, msgs, key, prompt, stream) ==
    IF key = <<>> THEN Stopped(keys, msgs)
    ELSE Turn(keys, Transcript(keys, msgs), prompt, stream.ok, Join(stream.frags))

----------------------------------------------------------------------------
(* One run of the script.  st is the state it starts from, inp the widget  *)
(* values of this run and the answers the network gives it.  An empty      *)
(* prompt stands for "nothing submitted" (st.chat_input gives None).       *)

Outcome(st, inp, loc, man, ico, chat) ==
    [keys |-> chat.keys,
     geo |-> man.geo,
     messages |-> chat.messages,
     cache |-> loc.cache,
     out |-> [ran |-> TRUE,
              calls |-> loc.calls \cup man.calls \cup ico.calls \cup chat.calls,
              detect_called |-> loc.called,
              had_fresh |-> CacheFresh(st.cache),
              detected |-> loc.detected,
              fallback |-> loc.fallback,
              before |-> st.geo,
              located |-> loc.geo,
              notice |-> man.notice,
              found |-> man.found,
              icon |-> ico.icon,
              stopped |-> chat.stopped,
              chat_input |-> chat.chat_input,
              shown |-> chat.shown,
              turn |-> chat.turn,
              prompt |-> inp.prompt,
              frags |-> (IF chat.turn = "done" THEN inp.s.frags ELSE <<>>)]]

FromManual(st, inp, loc, man) ==
    Outcome(st, inp, loc, man,
            IconStep(man.geo, inp.w),
            ChatStep(st.keys \cup {"geo"}, st.messages, inp.key, inp.prompt, inp.s))

FromLocation(st, inp, loc) ==
    FromManual(st, inp, loc,
               ManualStep(loc.geo, inp.apply_manual, inp.manual_loc, inp.g))

Script(st, inp) ==
    FromLocation(st, inp,
                 LocationStep(st.keys, st.geo, st.cache, inp.refresh_loc, inp.a, inp.b))

NoRun ==
    [ran |-> FALSE, calls |-> {}, detect_called |-> FALSE, had_fresh |-> FALSE,
     detected |-> JNull, fallback |-> FALSE, before |-> JNull, located |-> JNull,
     notice |-> "none", found |-> JNull, icon |-> "speech_balloon", stopped |-> FALSE,
     chat_input |-> FALSE, shown |-> <<>>, turn |-> "none", prompt |-> <<>>,
     frags |-> <<>>]

NoProbe == [fn |-> "none"]

Keys == {<<>>, <<"k">>}

\* The answers that can matter to a run: a service that is not asked in this
\* run gives none.
AnswersA(E, refresh_loc) ==
    IF (("geo" \notin session_keys) \/ refresh_loc) /\ ~CacheFresh(cache)
    THEN E.A ELSE {ErrResp}
AnswersB(E, refresh_loc, a) ==
    IF (("geo" \notin session_keys) \/ refresh_loc) /\ ~CacheFresh(cache)
       /\ ~IsDict(ProviderA(a))
    THEN E.B ELSE {ErrResp}
AnswersG(E, apply_manual, manual_loc) ==
    IF apply_manual /\ Strip(manual_loc) # <<>> THEN E.G ELSE {ErrResp}
AnswersS(E, key, prompt) ==
    IF key # <<>> /\ prompt # <<>> THEN E.streams ELSE {NoStream}

Run(E, refresh_loc, apply_manual, manual_loc, key, prompt) ==
    \E a \in AnswersA(E, refresh_loc) :
    \E b \in AnswersB(E, refresh_loc, a) :
    \E g \in AnswersG(E, apply_manual, manual_loc) :
    \E w \in E.W :
    \E s \in AnswersS(E, key, prompt) :
    \E r \in {Script([keys |-> session_keys, geo |-> geo, messages |-> messages,
                      cache |-> cache],
                     [refresh_loc |-> refresh_loc, apply_manual |-> apply_manual,
                      manual_loc |-> manual_loc, key |-> key, prompt |-> prompt,
                      a |-> a, b |-> b, g |-> g, w |-> w, s |-> s])} :
        /\ session_keys' = r.keys
        /\ geo' = r.geo
        /\ messages' = r.messages
        /\ cache' = r.cache
        /\ out' = r.out
        /\ openai_api_key' = key
        /\ UNCHANGED probe

Init ==
    /\ session_keys = {}
    /\ geo = JNull
    /\ messages = <<>>
    /\ openai_api_key = <<>>
    /\ cache = NoEntry
    /\ out = NoRun
    /\ probe = NoProbe

\* the page is loaded, or a text field was edited: a run with no button pressed
Rerun(E) ==
    Run(E, FALSE, FALSE, <<>>, openai_api_key, <<>>)

\* the credential field is edited
TypeKey(E) ==
    /\ out.ran
    /\ \E k \in Keys : k # openai_api_key /\ Run(E, FALSE, FALSE, <<>>, k, <<>>)

\* the "refresh location" button
ClickRefresh(E) ==
    /\ out.ran
    /\ Run(E, TRUE, FALSE, <<>>, openai_api_key, <<>>)

\* the "apply location" button, with the text the field holds
ClickApply(E) ==
    /\ out.ran
    /\ \E name \in E.names : Run(E, FALSE, TRUE, name, openai_api_key, <<>>)

\* a text is submitted in the chat input, which the last run displayed
SubmitChat(E) ==
    /\ out.chat_input
    /\ Len(messages) + 2 <= E.max_msgs
    /\ \E p \in E.prompts : Run(E, FALSE, FALSE, <<>>, openai_api_key, p)

\* time passes: the cache entry ages
Tick ==
    /\ cache.has
    /\ cache.age < Ttl
    /\ cache' = [cache EXCEPT !.age = @ + TickSeconds]
    /\ UNCHANGED <<session_keys, geo, messages, openai_api_key, out, probe>>

\* the browser session ends and a new one starts: session state is gone, the
\* process-wide cache is not
NewSession ==
    /\ out.ran
    /\ session_keys' = {}
    /\ geo' = JNull
    /\ messages' = <<>>
    /\ openai_api_key' = <<>>
    /\ out' = NoRun
    /\ UNCHANGED <<cache, probe>>

Next ==
    \/ Rerun(LocEnv)
    \/ TypeKey(LocEnv)
    \/ ClickRefresh(LocEnv)
    \/ ClickApply(LocEnv)
    \/ SubmitChat(LocEnv)
    \/ Tick
    \/ NewSession

Spec == Init /\ [][Next]_vars

NextChat ==
    \/ Rerun(ChatEnv)
    \/ TypeKey(ChatEnv)
    \/ ClickRefresh(ChatEnv)
    \/ ClickApply(ChatEnv)
    \/ SubmitChat(ChatEnv)
    \/ Tick
    \/ NewSession

SpecChat == Init /\ [][NextChat]_vars

----------------------------------------------------------------------------
(* Direct calls of single functions, on every argument of a bounded set.   *)

MaxCode == 100

IconCodes == {JNull} \cup NumSet((0 - 2) .. MaxCode)
IsDayValues == {JNull, Num(0), Num(1)}

ParisRecord ==
    [name |-> Str("Paris"), country |-> Str("France"), lat |-> Num(488566),
     lon |-> Num(23522), ip |-> Str("203.0.113.7"), org |-> Str("ExampleNet")]

SessionAtStart ==
    /\ session_keys = {}
    /\ geo = JNull
    /\ messages = <<>>
    /\ openai_api_key = <<>>
    /\ cache = NoEntry
    /\ out = NoRun

SessionUnchanged == UNCHANGED <<session_keys, geo, messages, openai_api_key, cache, out>>

\* weather_icon(code, is_day)
InitIcon ==
    /\ SessionAtStart
    /\ probe \in [fn : {"weather_icon"}, code : IconCodes, is_day : IsDayValues,
                  done : {FALSE}, result : {""}]

CallWeatherIcon ==
    /\ probe.fn = "weather_icon"
    /\ ~probe.done
    /\ probe' = [probe EXCEPT !.done = TRUE,
                              !.result = weather_icon(probe.code, probe.is_day)]
    /\ SessionUnchanged

SpecIcon == InitIcon /\ [][CallWeatherIcon]_vars

\* detect_location_by_ip(), uncached, on every pair of provider answers
InitDetect ==
    /\ SessionAtStart
    /\ probe \in [fn : {"detect_location_by_ip"}, a : RespA, b : RespB,
                  done : {FALSE}, value : {JNull}, calls : {{}}]

CallDetect ==
    /\ probe.fn = "detect_location_by_ip"
    /\ ~probe.done
    /\ \E d \in {detect_body(probe.a, probe.b)} :
           probe' = [probe EXCEPT !.done = TRUE, !.value = d.value, !.calls = d.calls]
    /\ SessionUnchanged

SpecDetect == InitDetect /\ [][CallDetect]_vars

\* geocode_city(name) called directly, and the apply handler on a held record
InitManual ==
    /\ SessionAtStart
    /\ probe \in [fn : {"geocode_city", "apply_manual"}, geo : {Fallback, ParisRecord},
                  name : Names, resp : GeoResp, done : {FALSE}, value : {JNull},
                  geo_after : {JNull}, calls : {{}}, notice : {"none"}]

CallGeocode ==
    /\ probe.fn = "geocode_city"
    /\ ~probe.done
    /\ \E r \in {geocode_city(probe.name, probe.resp)} :
           probe' = [probe EXCEPT !.done = TRUE, !.value = r.value, !.calls = r.calls]
    /\ SessionUnchanged

CallApply ==
    /\ probe.fn = "apply_manual"
    /\ ~probe.done
    /\ \E m \in {ManualStep(probe.geo, TRUE, probe.name, probe.resp)} :
           probe' = [probe EXCEPT !.done = TRUE, !.value = m.found,
                                  !.geo_after = m.geo, !.calls = m.calls,
                                  !.notice = m.notice]
    /\ SessionUnchanged

NextManual ==
    \/ CallGeocode
    \/ CallApply

SpecManual == InitManual /\ [][NextManual]_vars

----------------------------------------------------------------------------
(* Properties                                                              *)

IpCalls == {"ipapi", "ipwho"}

\* what the statements mean by a field that is there
Present(v) == v.t \notin {"missing", "null"}
NonEmptyText(v) == v.t = "str" /\ v.s # ""
Numeric(v) == v.t = "num" \/ v = Str("2.3522")
AsNumber(v) == IF v = Str("2.3522") THEN Num(23522) ELSE v
OrNone(v) == IF Present(v) THEN v ELSE JNull

RecordOfA(j) ==
    [name |-> j.city, country |-> j.country_name,
     lat |-> AsNumber(j.latitude), lon |-> AsNumber(j.longitude),
     ip |-> OrNone(j.ip),
     org |-> (IF Present(j.org) THEN j.org ELSE OrNone(j.asn))]

RecordOfB(j) ==
    [name |-> j.city, country |-> j.country,
     lat |-> AsNumber(j.latitude), lon |-> AsNumber(j.longitude),
     ip |-> OrNone(j.ip),
     org |-> (IF j.connection = Missing THEN JNull ELSE OrNone(j.connection.isp))]

PresentA(a) ==
    /\ a.status = "ok"
    /\ Present(a.json.city) /\ Present(a.json.country_name)
    /\ Present(a.json.latitude) /\ Present(a.json.longitude)

PresentB(b) ==
    /\ b.status = "ok"
    /\ Present(b.json.city) /\ Present(b.json.country)
    /\ Present(b.json.latitude) /\ Present(b.json.longitude)

UsableA(a) ==
    /\ a.status = "ok"
    /\ NonEmptyText(a.json.city) /\ NonEmptyText(a.json.country_name)
    /\ Numeric(a.json.latitude) /\ Numeric(a.json.longitude)

UsableB(b) ==
    /\ b.status = "ok"
    /\ b.json.success = Bool(TRUE)
    /\ b.json.connection # JNull
    /\ NonEmptyText(b.json.city) /\ NonEmptyText(b.json.country)
    /\ Numeric(b.json.latitude) /\ Numeric(b.json.longitude)

DetectDone == probe.fn = "detect_location_by_ip" /\ probe.done

\* C1 as stated: a provider's answer counts as soon as city, country, lat and
\* lon are present and non-null: A's record is returned and B is not called;
\* otherwise B is called and decides in the same way; else the result is absent.
C1_AsStated ==
    DetectDone =>
        IF PresentA(probe.a)
        THEN probe.value = RecordOfA(probe.a.json) /\ probe.calls = {"ipapi"}
        ELSE /\ probe.calls = {"ipapi", "ipwho"}
             /\ IF PresentB(probe.b) THEN probe.value = RecordOfB(probe.b.json)
                ELSE IsNone(probe.value)

\* C1 amended: a provider's answer counts only if the call succeeded, city and
\* country are non-empty, lat and lon are non-null and convert to a number, and,
\* for B, the success flag is true and "connection" is not null.  Then A's
\* record is returned without calling B; otherwise B is called and decides in
\* the same way; if neither counts the result is absent.
C1_ProviderOrder ==
    DetectDone =>
        IF UsableA(probe.a)
        THEN probe.value = RecordOfA(probe.a.json) /\ probe.calls = {"ipapi"}
        ELSE /\ probe.calls = {"ipapi", "ipwho"}
             /\ IF UsableB(probe.b) THEN probe.value = RecordOfB(probe.b.json)
                ELSE IsNone(probe.value)

C1_Witness ==
    /\ DetectDone
    /\ probe.a.status = "ok" /\ probe.a.json.latitude = Missing
    /\ probe.calls = {"ipapi", "ipwho"}
    /\ IsDict(probe.value) /\ probe.value.name = Str("Osaka")

\* C2: a call of detect_location_by_ip that finds an entry younger than 30
\* minutes (made by a first run or by the refresh button, in this session or
\* another) returns the stored value, None included, and asks neither provider.
C2_CacheHit ==
    (out.ran /\ out.detect_called /\ out.had_fresh) =>
        /\ out.calls \cap IpCalls = {}
        /\ out.detected = cache.value

C2_Witness ==
    /\ out.ran /\ out.detect_called /\ out.had_fresh
    /\ cache.age > 0
    /\ IsNone(out.detected)
    /\ geo = Fallback

\* the statements' own reading of "the fragments, concatenated in arrival order"
RECURSIVE Concatenated(_)
Concatenated(fs) ==
    IF fs = <<>> THEN <<>>
    ELSE Concatenated(SubSeq(fs, 1, Len(fs) - 1)) \o fs[Len(fs)]

\* C3: a completed turn leaves the transcript that the run started from, then
\* the user message carrying the input, then one assistant message carrying
\* the concatenated fragments: two entries more.
C3_TurnAppendsTwo ==
    out.turn = "done" =>
        /\ Len(messages) = Len(out.shown) + 2
        /\ SubSeq(messages, 1, Len(out.shown)) = out.shown
        /\ messages[Len(messages) - 1] = [role |-> "user", content |-> out.prompt]
        /\ messages[Len(messages)] =
               [role |-> "assistant", content |-> Concatenated(out.frags)]

C3_Witness ==
    /\ out.turn = "done"
    /\ Len(out.shown) = 2
    /\ Len(out.frags) = 2 /\ out.frags[1] # out.frags[2]
    /\ messages[4].content = <<"y", "z", "x">>

\* C4: an apply whose lookup gives nothing leaves the record as it was, shows
\* the warning, and the run goes on to the icon and the credential check.
C4_UnresolvedKeepsPlace ==
    (out.ran /\ "geocoding" \in out.calls /\ IsNone(out.found)) =>
        /\ geo = out.before
        /\ out.notice = "warning"
        /\ "weather" \in out.calls
        /\ out.stopped = (openai_api_key = <<>>)

C4_Witness ==
    /\ out.ran /\ "geocoding" \in out.calls /\ IsNone(out.found)
    /\ geo = out.before /\ geo # Fallback
    /\ out.notice = "warning"

Blank(name) == \A i \in 1..Len(name) : name[i] = " "

\* C5 as stated: geocode_city called with an empty or whitespace-only name
\* issues no request and returns None.
C5_AsStated ==
    (probe.fn = "geocode_city" /\ probe.done /\ Blank(probe.name)) =>
        probe.calls = {} /\ IsNone(probe.value)

\* C5 amended: the apply handler, given an empty or whitespace-only name, does
\* not call geocode_city: no request is issued, the record is left as it was
\* and nothing is shown.  (geocode_city itself sends whatever it is given.)
C5_BlankNameNotLookedUp ==
    (probe.fn = "apply_manual" /\ probe.done /\ Blank(probe.name)) =>
        /\ probe.calls = {}
        /\ probe.geo_after = probe.geo
        /\ probe.notice = "none"

C5_Witness ==
    /\ probe.fn = "apply_manual" /\ probe.done
    /\ probe.name = <<" ", " ">>
    /\ probe.resp.status = "ok" /\ probe.resp.has_results
    /\ probe.calls = {}

\* the table of the statement, by code number
TableGlyph(c, day) ==
    CASE c = 0 -> (IF day THEN "sun" ELSE "moon")
      [] c \in {1, 2} -> (IF day THEN "partly_sunny" ELSE "moon")
      [] c = 3 -> "cloud"
      [] c \in {45, 48} -> "fog"
      [] c \in {51, 53, 55, 61, 63, 65, 80, 81, 82, 56, 57, 66, 67} -> "rain"
      [] c \in {71, 73, 75, 77, 85, 86} -> "snow"
      [] c \in {95, 96, 99} -> "thunderstorm"
      [] OTHER -> "sun_behind_rain_cloud"

\* C6: weather_icon gives the table's glyph for every code and every is_day in
\* {0, 1, absent}, the unknown glyph for an absent code, and outside the codes
\* 0, 1, 2 the glyph is the same whatever is_day is.
C6_IconTable ==
    (probe.fn = "weather_icon" /\ probe.done) =>
        /\ probe.result =
               (IF probe.code = JNull THEN "globe"
                ELSE TableGlyph(probe.code.n, probe.is_day = Num(1)))
        /\ (probe.code = JNull \/ probe.code.n \notin {0, 1, 2}) =>
               \A d \in IsDayValues : weather_icon(probe.code, d) = probe.result

C6_Witness ==
    /\ probe.fn = "weather_icon" /\ probe.done
    /\ probe.code = Num(66) /\ probe.is_day = JNull
    /\ probe.result = "rain"

\* C7 as stated: an absent detection result is replaced by the Seoul record, and
\* after any run the session holds a record whose lat and lon are there.
C7_AsStated ==
    out.ran =>
        /\ (out.detect_called /\ IsNone(out.detected)) => out.located = Fallback
        /\ IsDict(geo) /\ ~IsNone(geo.lat) /\ ~IsNone(geo.lon)

\* C8: a successful apply writes name, country, lat and lon of the geocoding
\* result into the record and leaves ip and org as they were.
C8_ApplyKeepsNetworkFields ==
    (out.ran /\ out.notice = "success") =>
        /\ IsDict(out.found) /\ IsDict(out.before)
        /\ geo.name = out.found.name /\ geo.country = out.found.country
        /\ geo.lat = out.found.lat /\ geo.lon = out.found.lon
        /\ geo.ip = out.before.ip /\ geo.org = out.before.org
        /\ DOMAIN geo = DOMAIN out.before

C8_Witness ==
    /\ out.ran /\ out.notice = "success"
    /\ out.before.name = Str("Paris")
    /\ geo.name = Str("Tokyo") /\ geo.ip = Str("203.0.113.7")

\* C9: a run with an empty credential stops before the chat part: no chat
\* input is shown, no completion is requested, the transcript is neither
\* created nor changed; the location and the icon are still worked out.
C9_NoChatWithoutKey ==
    /\ [](out.ran /\ openai_api_key = <<>> =>
            /\ out.stopped /\ ~out.chat_input
            /\ "chat" \notin out.calls /\ out.turn = "none"
            /\ IsDict(geo) /\ "weather" \in out.calls)
    /\ [][(out'.ran /\ openai_api_key' = <<>>) =>
            /\ messages' = messages
            /\ ("messages" \in session_keys') = ("messages" \in session_keys)]_vars

C9_Witness ==
    /\ out.ran /\ openai_api_key = <<>>
    /\ "messages" \in session_keys /\ Len(messages) > 0
    /\ out.stopped /\ out.icon = "sun"

\* C10 as stated: between runs the transcript alternates user, assistant, ...
\* and has even length.
C10_AsStated ==
    /\ Len(messages) % 2 = 0
    /\ \A i \in 1..Len(messages) :
           messages[i].role = (IF i % 2 = 1 THEN "user" ELSE "assistant")

====
